---- MODULE Spec2Model ----
(***************************************************************************)
(* letclone: the clone! procedural macro (src/src/lib.rs).                 *)
(*                                                                         *)
(* The macro input is a token stream.  CloneExprList::parse reads a comma  *)
(* separated list of CloneExpr (optional `mut`, then a syn::Expr), and     *)
(* CloneExprList::to_tokens renders one `let` statement per item, or       *)
(* panics on a tuple-index field access or an unsupported expression.      *)
(***************************************************************************)
EXTENDS Integers, Sequences, FiniteSets, TLC

(***************************************************************************)
(* Token trees (proc_macro2::TokenTree): identifiers, punctuation,         *)
(* literals and delimited groups.  A group is ONE token tree holding its   *)
(* inner stream.                                                           *)
(***************************************************************************)
Id(s) == [t |-> "ident", v |-> s, inner |-> <<>>]

P(s) == [t |-> "punct", v |-> s, inner |-> <<>>]

Lit(s) == [t |-> "lit", v |-> s, inner |-> <<>>]

G(d, in) == [t |-> "group", v |-> d, inner |-> in]

Eof == [t |-> "eof", v |-> "", inner |-> <<>>]

Comma == P(",")

Dot == P(".")

Colon2 == P("::")

Keywords == {"mut", "let"}

\* ParseStream::peek / is_empty on the stream `toks` with cursor `pos`.
Peek(toks, pos) == IF pos <= Len(toks) THEN toks[pos] ELSE Eof

IsEmpty(toks, pos) == pos > Len(toks)

\* peek(Ident): an identifier that is not a keyword.
IsIdent(tk) == tk.t = "ident" /\ tk.v \notin Keywords

(***************************************************************************)
(* syn::Expr, as a tree of nodes [kind, kids, tk]:                         *)
(*   Path        tk   = the segments' identifiers                          *)
(*   Lit         tk   = the literal                                        *)
(*   Field       kids = <<base>>, tk = <<member>> (ident: Named,           *)
(*               literal: Unnamed)                                         *)
(*   MethodCall  kids = <<receiver>> \o args, tk = <<method>> \o trailing  *)
(*   Call        kids = <<func>> \o args,     tk = trailing                *)
(*   Index       kids = <<base, index>>                                    *)
(*   Binary      kids = <<left, right>>, tk = <<op>>                       *)
(*   Reference, Paren   kids = <<expr>>                                    *)
(*   Tuple, Array       kids = elements, tk = trailing                     *)
(*   Block       tk   = <<the brace group>>                                *)
(* `trailing` is <<Comma>> when the punctuated list ended with a comma.    *)
(***************************************************************************)
Node(k, kids, tk) == [kind |-> k, kids |-> kids, tk |-> tk]

NoExpr == Node("None", <<>>, <<>>)

Ok(e, pos) == [ok |-> TRUE, e |-> e, pos |-> pos]

Fail(pos) == [ok |-> FALSE, e |-> NoExpr, pos |-> pos]

\* `let v = x; F(v)`: x is evaluated once and F applied to its value.
With(x, F(_)) == CHOOSE y \in {F(v) : v \in {x}} : TRUE

RECURSIVE ParseExpr(_, _)
RECURSIVE ParseUnary(_, _)
RECURSIVE ParsePostfix(_, _, _)
RECURSIVE ParseBinaryRest(_, _, _)
RECURSIVE ParsePunctuated(_, _, _)
RECURSIVE ParsePathRest(_, _, _)

\* Path segments: ident (:: ident)*
ParsePathRest(toks, segs, pos) ==
    IF Peek(toks, pos) = Colon2
    THEN IF IsIdent(Peek(toks, pos + 1))
         THEN ParsePathRest(toks, Append(segs, toks[pos + 1]), pos + 2)
         ELSE Fail(pos + 1)
    ELSE Ok(Node("Path", <<>>, segs), pos)

\* Punctuated<Expr, Token![,]>::parse_terminated over a whole group stream.
ParsePunctuated(toks, pos, acc) ==
    IF IsEmpty(toks, pos)
    THEN [ok |-> TRUE, es |-> acc,
          trail |-> IF pos > 1 THEN <<Comma>> ELSE <<>>]
    ELSE With(ParseExpr(toks, pos), LAMBDA r :
             IF ~r.ok THEN [ok |-> FALSE, es |-> <<>>, trail |-> <<>>]
             ELSE IF IsEmpty(toks, r.pos)
             THEN [ok |-> TRUE, es |-> Append(acc, r.e), trail |-> <<>>]
             ELSE IF Peek(toks, r.pos) = Comma
             THEN ParsePunctuated(toks, r.pos + 1, Append(acc, r.e))
             ELSE [ok |-> FALSE, es |-> <<>>, trail |-> <<>>])

\* An atom: path, literal, parenthesised expression or tuple, array, block.
ParseAtom(toks, pos) ==
    With(Peek(toks, pos), LAMBDA tk :
        CASE IsIdent(tk) -> ParsePathRest(toks, <<tk>>, pos + 1)
          [] tk.t = "lit" -> Ok(Node("Lit", <<>>, <<tk>>), pos + 1)
          [] tk.t = "group" /\ tk.v = "paren" ->
                With(ParsePunctuated(tk.inner, 1, <<>>), LAMBDA a :
                    IF ~a.ok THEN Fail(pos)
                    ELSE IF Len(a.es) = 1 /\ a.trail = <<>>
                    THEN Ok(Node("Paren", a.es, <<>>), pos + 1)
                    ELSE Ok(Node("Tuple", a.es, a.trail), pos + 1))
          [] tk.t = "group" /\ tk.v = "bracket" ->
                With(ParsePunctuated(tk.inner, 1, <<>>), LAMBDA a :
                    IF ~a.ok THEN Fail(pos)
                    ELSE Ok(Node("Array", a.es, a.trail), pos + 1))
          [] tk.t = "group" /\ tk.v = "brace" ->
                Ok(Node("Block", <<>>, <<tk>>), pos + 1)
          [] OTHER -> Fail(pos))

\* Postfix operators on an already parsed expression e: .field, .index,
\* .method(args), (args), [index].
ParsePostfix(toks, e, pos) ==
    With(<<Peek(toks, pos), Peek(toks, pos + 1), Peek(toks, pos + 2)>>, LAMBDA nx :
      LET tk == nx[1]
          n1 == nx[2]
          n2 == nx[3]
      IN
        CASE tk = Dot /\ IsIdent(n1) /\ n2.t = "group" /\ n2.v = "paren" ->
                With(ParsePunctuated(n2.inner, 1, <<>>), LAMBDA a :
                    IF ~a.ok THEN Fail(pos + 2)
                    ELSE ParsePostfix(toks,
                            Node("MethodCall", <<e>> \o a.es, <<n1>> \o a.trail),
                            pos + 3))
          [] tk = Dot /\ IsIdent(n1) /\ ~(n2.t = "group" /\ n2.v = "paren") ->
                ParsePostfix(toks, Node("Field", <<e>>, <<n1>>), pos + 2)
          [] tk = Dot /\ n1.t = "lit" ->
                ParsePostfix(toks, Node("Field", <<e>>, <<n1>>), pos + 2)
          [] tk = Dot /\ ~IsIdent(n1) /\ n1.t # "lit" -> Fail(pos + 1)
          [] tk.t = "group" /\ tk.v = "paren" ->
                With(ParsePunctuated(tk.inner, 1, <<>>), LAMBDA a :
                    IF ~a.ok THEN Fail(pos)
                    ELSE ParsePostfix(toks,
                            Node("Call", <<e>> \o a.es, a.trail), pos + 1))
          [] tk.t = "group" /\ tk.v = "bracket" ->
                With(ParseExpr(tk.inner, 1), LAMBDA r :
                    IF ~r.ok \/ ~IsEmpty(tk.inner, r.pos) THEN Fail(pos)
                    ELSE ParsePostfix(toks,
                            Node("Index", <<e, r.e>>, <<>>), pos + 1))
          [] OTHER -> Ok(e, pos))

\* Unary level: &expr, or an atom with its postfix operators.
ParseUnary(toks, pos) ==
    IF Peek(toks, pos) = P("&")
    THEN With(ParseUnary(toks, pos + 1), LAMBDA r :
             IF r.ok THEN Ok(Node("Reference", <<r.e>>, <<>>), r.pos) ELSE r)
    ELSE With(ParseAtom(toks, pos), LAMBDA a :
             IF a.ok THEN ParsePostfix(toks, a.e, a.pos) ELSE a)

\* Binary level (left associative): left (+ right)*
ParseBinaryRest(toks, l, pos) ==
    IF Peek(toks, pos) = P("+")
    THEN With(ParseUnary(toks, pos + 1), LAMBDA r :
             IF r.ok
             THEN ParseBinaryRest(toks,
                     Node("Binary", <<l, r.e>>, <<toks[pos]>>), r.pos)
             ELSE r)
    ELSE Ok(l, pos)

\* <syn::Expr as Parse>::parse: reads the longest expression at the cursor
\* and leaves the cursor after it.
ParseExpr(toks, pos) ==
    With(ParseUnary(toks, pos), LAMBDA l :
        IF l.ok THEN ParseBinaryRest(toks, l.e, l.pos) ELSE l)

(***************************************************************************)
(* <syn::Expr as ToTokens>::to_tokens: the tokens of a parsed expression.  *)
(***************************************************************************)
RECURSIVE ToTokens(_)
RECURSIVE PunctTokens(_, _)
RECURSIVE PathTokens(_)

PathTokens(segs) ==
    IF Len(segs) = 0 THEN <<>>
    ELSE IF Len(segs) = 1 THEN <<segs[1]>>
    ELSE <<segs[1], Colon2>> \o PathTokens(Tail(segs))

PunctTokens(es, trail) ==
    IF Len(es) = 0 THEN <<>>
    ELSE IF Len(es) = 1 THEN ToTokens(es[1]) \o trail
    ELSE ToTokens(es[1]) \o <<Comma>> \o PunctTokens(Tail(es), trail)

ToTokens(e) ==
    CASE e.kind = "Path" -> PathTokens(e.tk)
      [] e.kind = "Lit" -> e.tk
      [] e.kind = "Field" -> ToTokens(e.kids[1]) \o <<Dot, e.tk[1]>>
      [] e.kind = "MethodCall" ->
            ToTokens(e.kids[1])
            \o <<Dot, e.tk[1], G("paren", PunctTokens(Tail(e.kids), Tail(e.tk)))>>
      [] e.kind = "Call" ->
            ToTokens(e.kids[1]) \o <<G("paren", PunctTokens(Tail(e.kids), e.tk))>>
      [] e.kind = "Index" ->
            ToTokens(e.kids[1]) \o <<G("bracket", ToTokens(e.kids[2]))>>
      [] e.kind = "Binary" ->
            ToTokens(e.kids[1]) \o e.tk \o ToTokens(e.kids[2])
      [] e.kind = "Reference" -> <<P("&")>> \o ToTokens(e.kids[1])
      [] e.kind = "Paren" -> <<G("paren", ToTokens(e.kids[1]))>>
      [] e.kind = "Tuple" -> <<G("paren", PunctTokens(e.kids, e.tk))>>
      [] e.kind = "Array" -> <<G("bracket", PunctTokens(e.kids, e.tk))>>
      [] e.kind = "Block" -> e.tk
      [] OTHER -> <<>>

(***************************************************************************)
(* Diagnostics.  A message is a sequence of text parts.                    *)
(***************************************************************************)
ExpectedExprMsg ==
    "expected a valid expression: field access (a.b), method call (a.method()), or path (var)"

FailedToParseMsg == "failed to parse clone expression: "

AtLeastOneMsg == "clone! macro requires at least one expression"

UnexpectedTokenMsg == "unexpected token"

TupleIndexMsg ==
    "clone! macro does not support tuple index access (e.g., a.0), please use named fields: "

UnsupportedMsg ==
    "clone! macro does not support this expression type. Supported types: field access (a.b), method call (a.method()), path (var). Got: "

(***************************************************************************)
(* impl Parse for CloneExpr: optional `mut`, then a syn::Expr whose error  *)
(* is replaced by ExpectedExprMsg.                                         *)
(***************************************************************************)
PeekMutSticky(toks, pos) == \E k \in 1..pos : Peek(toks, k) = Id("mut")

PeekMut(toks, pos) == Peek(toks, pos) = Id("mut")

CloneExprParse(toks, pos) ==
    With(ParseExpr(toks, IF Peek(toks, pos) = Id("mut") THEN pos + 1 ELSE pos),
         LAMBDA r :
        IF r.ok
        THEN [ok |-> TRUE, ce |-> [mutability |-> PeekMut(toks, pos), inner |-> r.e],
              pos |-> r.pos, msg |-> <<>>]
        ELSE [ok |-> FALSE, ce |-> [mutability |-> PeekMut(toks, pos), inner |-> NoExpr],
              pos |-> r.pos, msg |-> <<ExpectedExprMsg>>])

(***************************************************************************)
(* impl ToTokens for CloneExpr: the arms of the match on self.inner.  An   *)
(* arm yields [ok, toks, msg, detail]; ok = FALSE is a panic with message  *)
(* msg and payload detail.                                                 *)
(***************************************************************************)
CloneCall == <<Dot, Id("clone"), G("paren", <<>>), P(";")>>

Emit(toks) == [ok |-> TRUE, toks |-> toks, msg |-> <<>>, detail |-> <<>>]

Panic(msg, detail) ==
    [ok |-> FALSE, toks |-> <<>>, msg |-> <<msg>>, detail |-> detail]

\* Expr::Field with Member::Named: #field_name = #base.#field_name.clone();
FieldArmBaseOnly(e) ==
    Emit(<<e.tk[1], P("=")>> \o ToTokens(e.kids[1]) \o CloneCall)

FieldArm(e) ==
    Emit(<<e.tk[1], P("=")>> \o ToTokens(e.kids[1]) \o <<Dot, e.tk[1]>> \o CloneCall)

\* Expr::Field with Member::Unnamed: panic naming the index.
UnnamedArmGeneric(e) == Panic(UnsupportedMsg, ToTokens(e))

UnnamedArm(e) == Panic(TupleIndexMsg, <<e.tk[1]>>)

\* Expr::MethodCall: #method = #inner.clone();
MethodCallArmCalleeOnly(e) ==
    Emit(<<e.tk[1], P("=")>> \o ToTokens(e.kids[1]) \o <<Dot, e.tk[1]>> \o CloneCall)

MethodCallArm(e) == Emit(<<e.tk[1], P("=")>> \o ToTokens(e) \o CloneCall)

\* Expr::Path: #ident = #inner.clone(); with ident the LAST segment's.
PathArmFirstSegment(e) == Emit(<<e.tk[1], P("=")>> \o ToTokens(e) \o CloneCall)

PathArm(e) == Emit(<<e.tk[Len(e.tk)], P("=")>> \o ToTokens(e) \o CloneCall)

\* Every other expression: panic carrying inner.to_token_stream().
CatchAllArmSilent(e) == Emit(<<>>)

CatchAllArmWrongMsg(e) == Panic(TupleIndexMsg, ToTokens(e))

CatchAllArm(e) == Panic(UnsupportedMsg, ToTokens(e))

\* if let Some(m) = &self.mutability { tokens.extend(quote! { #m }) }
MutTokens(mutability) == IF mutability THEN <<Id("mut")>> ELSE <<>>

\* The whole of CloneExpr::to_tokens.  `let` and `mut` are pushed before the
\* match, so they are in the buffer when an arm panics.
CloneExprToTokens(ce) ==
    LET e == ce.inner
    IN  With(CASE e.kind = "Field" /\ e.tk[1].t = "ident" -> FieldArm(e)
               [] e.kind = "Field" /\ e.tk[1].t # "ident" -> UnnamedArm(e)
               [] e.kind = "MethodCall" -> MethodCallArm(e)
               [] e.kind = "Path" -> PathArm(e)
               [] OTHER -> CatchAllArm(e),
             LAMBDA r :
                [r EXCEPT !.toks = <<Id("let")>> \o MutTokens(ce.mutability) \o r.toks])

(***************************************************************************)
(* impl Parse for CloneExprList and the entry point `clone`.               *)
(***************************************************************************)
\* exprs.push(expr)
PushExprFront(exprs, ce) == <<ce>> \o exprs

PushExpr(exprs, ce) == Append(exprs, ce)

\* if exprs.is_empty() { return Err(..) }
ListIsEmptyNever(exprs) == FALSE

ListIsEmpty(exprs) == exprs = <<>>

\* syn::Error::to_compile_error, which parse_macro_input! returns on Err.
CompileError(msg) ==
    <<Colon2, Id("core"), Colon2, Id("compile_error"), P("!"),
      G("brace", [i \in 1..Len(msg) |-> Lit(msg[i])])>>

\* What the compiler receives from `clone`: the rendered tokens, the
\* compile_error! invocation of a parse error, or nothing when to_tokens
\* panicked (the buffer is dropped by the unwinding).
ReturnedKeepsBuffer(oc, toks, m) ==
    IF oc = "err" THEN CompileError(m) ELSE toks

Returned(oc, toks, m) ==
    CASE oc = "ok" -> toks
      [] oc = "err" -> CompileError(m)
      [] OTHER -> <<>>

(***************************************************************************)
(* Macro inputs.  An input is a list of at most MaxItems items joined by   *)
(* commas, with or without a trailing comma.  Each item is the tokens of   *)
(* one expression shape, possibly prefixed by `mut`; `shape` records what  *)
(* was written, for the properties below (the program never reads it).     *)
(* Lists shorter than MaxItems range over all of Cases, lists of MaxItems  *)
(* items over CoreCases.                                                   *)
(***************************************************************************)
MaxItems == 3

Case(shape, toks) == [mut |-> FALSE, shape |-> shape, toks |-> toks]

PathCases == {Case("Path", <<Id("a")>>),
              Case("Path", <<Id("a"), Colon2, Id("b")>>)}

Bases == {<<Id("a")>>, <<Id("a"), G("bracket", <<Lit("0")>>)>>}

FieldCases == {Case("Field", b \o <<Dot, Id("b")>>) : b \in Bases}
              \cup {Case("Field", <<Id("a"), Dot, Id("c")>>)}

ArgLists == {<<>>, <<Id("a"), Comma, Id("b")>>}

MethodCases == {Case("MethodCall", <<Id("a"), Dot, Id("m"), G("paren", as)>>) :
                    as \in ArgLists}

PositionalCases == {Case("Positional", <<Id("a"), Dot, Lit("0")>>)}

OtherCases == {Case("Other", <<Id("a"), G("bracket", <<Lit("0")>>)>>),
               Case("Other", <<Lit("1"), P("+"), Lit("1")>>),
               Case("Other", <<G("brace", <<>>)>>),
               Case("Other", <<Lit("1")>>),
               Case("Other", <<P("&"), Id("a")>>),
               Case("Other", <<G("paren", <<Id("a")>>)>>)}

CallCases == {Case("Call", <<Id("f"), G("paren", <<Id("a")>>)>>),
              Case("Call", <<Id("a"), Colon2, Id("f"), G("paren", <<>>)>>)}

\* Items the expression parser rejects or does not read to the end.
BadCases == {Case("Empty", <<>>),
             Case("Bad", <<P("+")>>),
             Case("Bad", <<Id("a"), Id("b")>>)}

\* The items written with the `mut` marker.
MutCases == {[c EXCEPT !.mut = TRUE] :
                c \in {Case("Path", <<Id("a")>>),
                       Case("Field", <<Id("a"), Dot, Id("b")>>),
                       Case("MethodCall", <<Id("a"), Dot, Id("m"), G("paren", <<>>)>>),
                       Case("Positional", <<Id("a"), Dot, Lit("0")>>),
                       Case("Other", <<Id("a"), G("bracket", <<Lit("0")>>)>>),
                       Case("Bad", <<>>)}}

Cases == PathCases \cup FieldCases \cup MethodCases \cup PositionalCases
         \cup OtherCases \cup CallCases \cup BadCases \cup MutCases

CoreCases == {Case("Path", <<Id("a")>>),
              Case("Field", <<Id("a"), G("bracket", <<Lit("0")>>), Dot, Id("b")>>),
              [Case("MethodCall", <<Id("a"), Dot, Id("m"), G("paren", <<>>)>>)
                  EXCEPT !.mut = TRUE],
              Case("Positional", <<Id("a"), Dot, Lit("0")>>),
              Case("Other", <<Id("a"), G("bracket", <<Lit("0")>>)>>),
              Case("Empty", <<>>),
              Case("Bad", <<Id("a"), Id("b")>>)}

Inputs == UNION {[1..n -> Cases] : n \in 0..(MaxItems - 1)}
          \cup [1..MaxItems -> CoreCases]

ItemToks(c) == (IF c.mut THEN <<Id("mut")>> ELSE <<>>) \o c.toks

RECURSIVE JoinItems(_)
JoinItems(its) ==
    IF Len(its) = 0 THEN <<>>
    ELSE IF Len(its) = 1 THEN ItemToks(its[1])
    ELSE ItemToks(its[1]) \o <<Comma>> \o JoinItems(Tail(its))

(***************************************************************************)
(* State of one expansion of clone!(input).                                *)
(***************************************************************************)
VARIABLES
    items,      \* the items written in the macro call
    trailing,   \* whether a comma follows the last item
    input,      \* the macro's input token stream
    pos,        \* cursor of the ParseStream
    exprs,      \* CloneExprList.exprs
    idx,        \* next expr of CloneExprList::to_tokens
    tokens,     \* the local TokenStream buffer of `clone`
    pc,         \* "parse", "parsed", "render", "ret", "done"
    outcome,    \* "none", "ok", "err" (syn::Error), "panic"
    msg,        \* message of the error or panic
    detail,     \* payload of the panic message
    returned    \* the token stream handed back to the compiler

vars == <<items, trailing, input, pos, exprs, idx, tokens, pc, outcome, msg,
          detail, returned>>

Init ==
    /\ items \in Inputs
    /\ trailing \in BOOLEAN
    /\ input = JoinItems(items) \o (IF trailing THEN <<Comma>> ELSE <<>>)
    /\ pos = 1
    /\ exprs = <<>>
    /\ idx = 1
    /\ tokens = <<>>
    /\ pc = "parse"
    /\ outcome = "none"
    /\ msg = <<>>
    /\ detail = <<>>
    /\ returned = <<>>

\* One iteration of `while !input.is_empty()` in CloneExprList::parse: parse
\* an item (a failure returns Err at once), push it, then consume a comma or
\* break.
ParseLoopStep ==
    /\ pc = "parse"
    /\ ~IsEmpty(input, pos)
    /\ \E r \in {CloneExprParse(input, pos)} :
           IF ~r.ok
           THEN /\ outcome' = "err"
                /\ msg' = <<FailedToParseMsg>> \o r.msg
                /\ pc' = "ret"
                /\ pos' = r.pos
                /\ exprs' = exprs
           ELSE /\ exprs' = PushExpr(exprs, r.ce)
                /\ IF Peek(input, r.pos) = Comma
                   THEN pos' = r.pos + 1 /\ pc' = "parse"
                   ELSE pos' = r.pos /\ pc' = "parsed"
                /\ UNCHANGED <<outcome, msg>>
    /\ UNCHANGED <<items, trailing, input, idx, tokens, detail, returned>>

\* After the loop: the is_empty check of CloneExprList::parse, then the check
\* of parse_macro_input! that the whole input was consumed.
ParseFinish ==
    /\ pc = "parsed" \/ (pc = "parse" /\ IsEmpty(input, pos))
    /\ IF ListIsEmpty(exprs)
       THEN outcome' = "err" /\ msg' = <<AtLeastOneMsg>> /\ pc' = "ret"
       ELSE IF ~IsEmpty(input, pos)
       THEN outcome' = "err" /\ msg' = <<UnexpectedTokenMsg>> /\ pc' = "ret"
       ELSE pc' = "render" /\ UNCHANGED <<outcome, msg>>
    /\ UNCHANGED <<items, trailing, input, pos, exprs, idx, tokens, detail,
                   returned>>

\* One iteration of `for expr in &self.exprs` in CloneExprList::to_tokens.
RenderStep ==
    /\ pc = "render"
    /\ idx <= Len(exprs)
    /\ \E r \in {CloneExprToTokens(exprs[idx])} :
           /\ tokens' = tokens \o r.toks
           /\ IF r.ok
              THEN idx' = idx + 1 /\ UNCHANGED <<pc, outcome, msg, detail>>
              ELSE /\ outcome' = "panic"
                   /\ msg' = r.msg
                   /\ detail' = r.detail
                   /\ pc' = "ret"
                   /\ idx' = idx
    /\ UNCHANGED <<items, trailing, input, pos, exprs, returned>>

\* The loop of to_tokens ran to its end.
RenderDone ==
    /\ pc = "render"
    /\ idx > Len(exprs)
    /\ outcome' = "ok"
    /\ pc' = "ret"
    /\ UNCHANGED <<items, trailing, input, pos, exprs, idx, tokens, msg, detail,
                   returned>>

\* `clone` hands its result to the compiler.
Return ==
    /\ pc = "ret"
    /\ returned' = Returned(outcome, tokens, msg)
    /\ pc' = "done"
    /\ UNCHANGED <<items, trailing, input, pos, exprs, idx, tokens, outcome, msg,
                   detail>>

Next == ParseLoopStep \/ ParseFinish \/ RenderStep \/ RenderDone \/ Return

Spec == Init /\ [][Next]_vars

(***************************************************************************)
(* Vocabulary of the properties: what was written, and the statement each  *)
(* supported item is expected to expand to.                                *)
(***************************************************************************)
Done == pc = "done"

Supported(c) == c.shape \in {"Path", "Field", "MethodCall"}

AllSupported == Len(items) >= 1 /\ \A i \in 1..Len(items) : Supported(items[i])

\* The binding's identifier as written: the last token of a path or field
\* access, the token before the argument list of a method call.
ExpectedName(c) ==
    IF c.shape = "MethodCall" THEN c.toks[Len(c.toks) - 1] ELSE c.toks[Len(c.toks)]

ExpectedStmt(c) ==
    <<Id("let")>> \o (IF c.mut THEN <<Id("mut")>> ELSE <<>>)
    \o <<ExpectedName(c), P("=")>> \o c.toks
    \o <<P("."), Id("clone"), G("paren", <<>>), P(";")>>

\* The statements of a token stream: its pieces up to each top-level `;`.
RECURSIVE SplitAcc(_, _, _)
SplitAcc(toks, cur, acc) ==
    IF Len(toks) = 0
    THEN IF Len(cur) = 0 THEN acc ELSE Append(acc, cur)
    ELSE IF Head(toks) = P(";")
    THEN SplitAcc(Tail(toks), <<>>, Append(acc, Append(cur, Head(toks))))
    ELSE SplitAcc(Tail(toks), Append(cur, Head(toks)), acc)

SplitStmts(toks) == SplitAcc(toks, <<>>, <<>>)

HasLet(toks) == \E k \in 1..Len(toks) : toks[k] = Id("let")

IsMutStmt(st) == Len(st) >= 2 /\ st[2] = Id("mut")

DropMut(st) == IF IsMutStmt(st) THEN <<st[1]>> \o SubSeq(st, 3, Len(st)) ELSE st

\* An empty last item with no comma after it is the list's trailing comma.
EmptyFails(i) ==
    /\ items[i].shape = "Empty"
    /\ (i < Len(items) \/ trailing \/ Len(items) = 1)

\* Some item cannot be read as an expression followed by a comma or the end.
ParseFails == \E i \in 1..Len(items) : items[i].shape = "Bad" \/ EmptyFails(i)

\* Item i is the first item that is not of a supported shape.
FirstUnsupported(i) == \A j \in 1..(i - 1) : Supported(items[j])

\* Some item of the list fails: in parsing or in rendering.
SomeItemFails ==
    \E i \in 1..Len(items) :
        \/ items[i].shape \in {"Bad", "Positional", "Other", "Call"}
        \/ EmptyFails(i)

\* C1: a single bare path without `mut` expands to exactly
\* `let x = <whole path>.clone();`, x the path's last identifier, not mutable.
C1_PathBinding ==
    (Done /\ Len(items) = 1 /\ items[1].shape = "Path" /\ ~items[1].mut)
    => /\ outcome = "ok"
       /\ returned = <<Id("let"), items[1].toks[Len(items[1].toks)], P("=")>>
                     \o items[1].toks
                     \o <<P("."), Id("clone"), G("paren", <<>>), P(";")>>

C1_Witness ==
    /\ Done
    /\ items = <<Case("Path", <<Id("a"), Colon2, Id("b")>>)>>
    /\ outcome = "ok"
    /\ returned[2] = Id("b")

\* C2: a single named field access base.f expands to exactly
\* `let f = base.f.clone();`: named after the field, duplicating base.f.
C2_FieldBinding ==
    (Done /\ Len(items) = 1 /\ items[1].shape = "Field" /\ ~items[1].mut)
    => LET w == items[1].toks
           f == w[Len(w)]
           base == SubSeq(w, 1, Len(w) - 2)
       IN  /\ outcome = "ok"
           /\ returned = <<Id("let"), f, P("=")>> \o base \o <<P("."), f>>
                         \o <<P("."), Id("clone"), G("paren", <<>>), P(";")>>
           /\ Len(SplitStmts(returned)) = 1

C2_Witness ==
    /\ Done
    /\ Len(items) = 1
    /\ items[1].toks = <<Id("a"), G("bracket", <<Lit("0")>>), P("."), Id("b")>>
    /\ outcome = "ok"
    /\ returned[2] = Id("b")
    /\ returned[4] = Id("a")

\* C3: a single method call base.m(args) expands to exactly
\* `let m = base.m(args).clone();`: named after the method, duplicating the
\* whole call with its arguments; commas inside the parentheses do not split.
C3_MethodCallBinding ==
    (Done /\ Len(items) = 1 /\ items[1].shape = "MethodCall" /\ ~items[1].mut)
    => LET w == items[1].toks
           m == w[Len(w) - 1]
       IN  /\ outcome = "ok"
           /\ Len(exprs) = 1
           /\ returned = <<Id("let"), m, P("=")>> \o w
                         \o <<P("."), Id("clone"), G("paren", <<>>), P(";")>>
           /\ Len(SplitStmts(returned)) = 1

C3_Witness ==
    /\ Done
    /\ Len(items) = 1
    /\ items[1].shape = "MethodCall"
    /\ items[1].toks[4].inner = <<Id("a"), Comma, Id("b")>>
    /\ outcome = "ok"
    /\ returned[2] = Id("m")
    /\ returned[7] = items[1].toks[4]

\* C4: in a list of supported items, statement i is `let mut ...` if and only
\* if item i was written with `mut`; apart from that token it is the
\* statement of the unmarked item, and other items are not affected.
C4_MutIffMarked ==
    (Done /\ AllSupported)
    => /\ outcome = "ok"
       /\ LET parts == SplitStmts(returned)
          IN  /\ Len(parts) = Len(items)
              /\ \A i \in 1..Len(items) :
                    /\ IsMutStmt(parts[i]) <=> items[i].mut
                    /\ DropMut(parts[i]) = ExpectedStmt([items[i] EXCEPT !.mut = FALSE])

C4_Witness ==
    /\ Done
    /\ Len(items) = 2
    /\ AllSupported
    /\ items[1].mut
    /\ ~items[2].mut
    /\ outcome = "ok"
    /\ IsMutStmt(SplitStmts(returned)[1])
    /\ ~IsMutStmt(SplitStmts(returned)[2])

\* C5: a list of N >= 1 valid items, with or without a trailing comma,
\* expands to exactly N statements, the i-th being the statement of the i-th
\* item: input order, no deduplication, nothing for the trailing comma.
C5_OneStatementPerItem ==
    (Done /\ AllSupported)
    => /\ outcome = "ok"
       /\ Len(exprs) = Len(items)
       /\ LET parts == SplitStmts(returned)
          IN  /\ Len(parts) = Len(items)
              /\ \A i \in 1..Len(items) : parts[i] = ExpectedStmt(items[i])

C5_Witness ==
    /\ Done
    /\ Len(items) = 2
    /\ AllSupported
    /\ trailing
    /\ items[1] # items[2]
    /\ ExpectedName(items[1]) = ExpectedName(items[2])
    /\ outcome = "ok"
    /\ Len(SplitStmts(returned)) = 2

\* The input is empty, starts with a comma, or has two consecutive commas.
HasEmptySegment ==
    \/ Len(input) = 0
    \/ (Len(input) >= 1 /\ input[1] = Comma)
    \/ \E k \in 1..(Len(input) - 1) : input[k] = Comma /\ input[k + 1] = Comma

\* C6: the empty input, a lone comma, a leading comma and two consecutive
\* commas all end in an error; no statement is returned, and the empty input
\* gets the at-least-one-expression message.
C6_EmptySegmentIsError ==
    (Done /\ HasEmptySegment)
    => /\ outcome = "err"
       /\ returned = CompileError(msg)
       /\ ~HasLet(returned)
       /\ (Len(input) = 0 => msg = <<AtLeastOneMsg>>)
       /\ (Len(input) > 0 => msg \in {<<FailedToParseMsg, ExpectedExprMsg>>,
                                        <<UnexpectedTokenMsg>>})

C6_Witness ==
    /\ Done
    /\ input = <<Id("a"), Comma, Comma, Id("a")>>
    /\ Len(exprs) = 1
    /\ outcome = "err"

\* C7: a list with a tuple-index field access base.N (with or without `mut`)
\* never expands; when that item is the first unsupported one of a list that
\* parses, the failure is the tuple-index message with the index, not the
\* unsupported-expression message.
C7_PositionalIsRejected ==
    Done =>
        \A i \in 1..Len(items) :
            items[i].shape = "Positional"
            => /\ outcome \in {"err", "panic"}
               /\ ~HasLet(returned)
               /\ (~ParseFails /\ FirstUnsupported(i))
                  => /\ outcome = "panic"
                     /\ msg = <<TupleIndexMsg>>
                     /\ msg # <<UnsupportedMsg>>
                     /\ detail = <<items[i].toks[Len(items[i].toks)]>>
                     /\ returned = <<>>

C7_Witness ==
    /\ Done
    /\ Len(items) = 1
    /\ items[1].shape = "Positional"
    /\ items[1].mut
    /\ outcome = "panic"
    /\ msg = <<TupleIndexMsg>>

\* C8: an item whose expression is none of the supported shapes (index,
\* binary, block, literal, reference, parenthesised) never expands; when it is
\* the first unsupported item of a list that parses, the failure is the
\* unsupported-expression message carrying the expression's tokens.
C8_UnsupportedIsRejected ==
    Done =>
        \A i \in 1..Len(items) :
            items[i].shape = "Other"
            => /\ outcome \in {"err", "panic"}
               /\ ~HasLet(returned)
               /\ (~ParseFails /\ FirstUnsupported(i))
                  => /\ outcome = "panic"
                     /\ msg = <<UnsupportedMsg>>
                     /\ detail = items[i].toks
                     /\ returned = <<>>

C8_Witness ==
    /\ Done
    /\ Len(items) = 1
    /\ items[1].toks = <<Lit("1"), P("+"), Lit("1")>>
    /\ outcome = "panic"
    /\ msg = <<UnsupportedMsg>>
    /\ detail = <<Lit("1"), P("+"), Lit("1")>>

\* C9: when some item of the list fails, the expansion ends in an error and
\* what is returned holds no statement of any item: nothing after a panic,
\* only the compile_error! invocation after a parse error.
C9_AllOrNothing ==
    (Done /\ SomeItemFails)
    => /\ outcome \in {"err", "panic"}
       /\ ~HasLet(returned)
       /\ (outcome = "panic" => returned = <<>>)
       /\ (outcome = "err" => returned = CompileError(msg))

C9_Witness ==
    /\ Done
    /\ Len(items) = 3
    /\ Supported(items[1])
    /\ items[2].shape = "Positional"
    /\ Supported(items[3])
    /\ outcome = "panic"
    /\ Len(SplitStmts(tokens)) = 2
    /\ tokens # <<>>
    /\ returned = <<>>

\* C10 as claimed: a call f(x) or m::f() whose callee is a path expands to
\* `let f = <call>.clone();`.
C10_PathCallBinds ==
    (Done /\ Len(items) = 1 /\ items[1].shape = "Call")
    => /\ outcome = "ok"
       /\ returned = <<Id("let"), items[1].toks[Len(items[1].toks) - 1], P("=")>>
                     \o items[1].toks
                     \o <<P("."), Id("clone"), G("paren", <<>>), P(";")>>

\* C10 amended: a call whose callee is a path is not a method call; as the
\* only item it ends in the unsupported-expression panic carrying the call's
\* tokens, and no binding is produced.
C10_PathCallUnsupported ==
    (Done /\ Len(items) = 1 /\ items[1].shape = "Call")
    => /\ outcome = "panic"
       /\ msg = <<UnsupportedMsg>>
       /\ detail = items[1].toks
       /\ exprs[1].inner.kind = "Call"
       /\ returned = <<>>

C10_Witness ==
    /\ Done
    /\ items = <<Case("Call", <<Id("a"), Colon2, Id("f"), G("paren", <<>>)>>)>>
    /\ outcome = "panic"
    /\ detail = items[1].toks

====
